---- MODULE Spec2Model ----
(***************************************************************************)
(* pytube captions: pytube/captions.py, class Caption.                     *)
(*                                                                         *)
(* Python strings are modelled as sequences of one-character strings, so   *)
(* that replace, strip, split, join and the formatting directives are      *)
(* computed character by character as the interpreter computes them.       *)
(*                                                                         *)
(* A Python float holding seconds is modelled as a decimal fixed-point     *)
(* record [whole, micro] (whole seconds, millionths of a second); a float  *)
(* holding milliseconds as [ms, sub] (whole milliseconds, thousandths of a *)
(* millisecond).  The binary double nearest to such a decimal lies just    *)
(* above or just below it; this only matters when ".3f" formatting meets   *)
(* an exact decimal tie, and is left open by the variable tieUp.           *)
(***************************************************************************)
EXTENDS Integers, Sequences, FiniteSets, TLC

VARIABLES
    caption,    \* the Caption object: [built, url, name, code]
    remote,     \* the document request.get(self.url) returns
    tieUp,      \* whether the double of a decimal tie lies above it
    call,       \* the last call made: [op, arg]
    ret,        \* its outcome: [raised, value]
    disk,       \* what open(..., "w") and write() left: [path, content]
    resolved    \* the arguments target_directory was called with, in order

vars == <<caption, remote, tieUp, call, ret, disk, resolved>>

(***************************************************************************)
(* Bounds of the model.                                                    *)
(***************************************************************************)
MaxHours == 25
MaxParas == 3
MaxVssId == 2

(***************************************************************************)
(* Python values.                                                          *)
(***************************************************************************)
None == <<"<None>">>

\* How a call ends: the exception that leaves it ("" for none), the value it
\* returns, and whether traceback.print_exc() reported a swallowed exception.
Return(v) == [raised |-> "", value |-> v, traced |-> FALSE]

ReturnTraced(v, t) == [raised |-> "", value |-> v, traced |-> t]

Raise(e) == [raised |-> e, value |-> None, traced |-> FALSE]

NoCall == [op |-> "", arg |-> None]

NoDisk == [path |-> None, content |-> None]

\* No Caption has been constructed.
NoCaption == [built |-> FALSE, url |-> None, name |-> None, code |-> None]

\* An attribute that was never assigned.
Unset == <<"<unset>">>

(***************************************************************************)
(* str methods.                                                            *)
(***************************************************************************)
Digits == <<"0", "1", "2", "3", "4", "5", "6", "7", "8", "9">>

Whitespace == {" ", "\n", "\t", "\r"}

IsPrefixAt(s, i, old) ==
    /\ i + Len(old) - 1 <= Len(s)
    /\ \A k \in 1..Len(old) : s[i + k - 1] = old[k]

RECURSIVE ReplaceFrom(_, _, _, _, _)
ReplaceFrom(s, i, old, new, acc) ==
    IF i > Len(s) THEN acc
    ELSE IF IsPrefixAt(s, i, old)
         THEN ReplaceFrom(s, i + Len(old), old, new, acc \o new)
         ELSE ReplaceFrom(s, i + 1, old, new, Append(acc, s[i]))

\* s.replace(old, new) for a non-empty old: every non-overlapping occurrence,
\* found left to right.
replace(s, old, new) == ReplaceFrom(s, 1, old, new, <<>>)

RECURSIVE LStripFrom(_, _, _)
LStripFrom(s, i, chars) ==
    IF i <= Len(s) /\ s[i] \in chars THEN LStripFrom(s, i + 1, chars) ELSE i

RECURSIVE RStripFrom(_, _, _)
RStripFrom(s, j, chars) ==
    IF j >= 1 /\ s[j] \in chars THEN RStripFrom(s, j - 1, chars) ELSE j

\* s.strip(chars)
strip_chars(s, chars) ==
    SubSeq(s, LStripFrom(s, 1, chars), RStripFrom(s, Len(s), chars))

\* s.strip()
strip(s) == strip_chars(s, Whitespace)

RECURSIVE JoinFrom(_, _, _, _)
JoinFrom(sep, parts, i, acc) ==
    IF i > Len(parts) THEN acc
    ELSE JoinFrom(sep, parts, i + 1,
                  IF i = 1 THEN parts[i] ELSE acc \o sep \o parts[i])

\* sep.join(parts)
join(sep, parts) == JoinFrom(sep, parts, 1, <<>>)

\* s.endswith(suffix)
endswith(s, suffix) ==
    /\ Len(suffix) <= Len(s)
    /\ SubSeq(s, Len(s) - Len(suffix) + 1, Len(s)) = suffix

RECURSIVE SplitFrom(_, _, _, _, _)
SplitFrom(s, i, sep, cur, parts) ==
    IF i > Len(s) THEN Append(parts, cur)
    ELSE IF s[i] = sep
         THEN SplitFrom(s, i + 1, sep, <<>>, Append(parts, cur))
         ELSE SplitFrom(s, i + 1, sep, Append(cur, s[i]), parts)

\* s.split(sep) for a one-character sep
split(s, sep) == SplitFrom(s, 1, sep, <<>>, <<>>)

RECURSIVE str(_)
\* str(n) of a non-negative int
str(n) == IF n < 10 THEN <<Digits[n + 1]>>
          ELSE Append(str(n \div 10), Digits[(n % 10) + 1])

\* "%02d" of strftime's fields
TwoDigits(n) == <<Digits[((n \div 10) % 10) + 1], Digits[(n % 10) + 1]>>

ThreeDigits(n) ==
    <<Digits[((n \div 100) % 10) + 1], Digits[((n \div 10) % 10) + 1],
      Digits[(n % 10) + 1]>>

(***************************************************************************)
(* Caption.float_to_srt_time_format and timestamp_to_srt_time_format.      *)
(***************************************************************************)
\* math.modf(d): <<fraction, whole>>
modf(d) == <<d.micro, d.whole>>

\* gmtime as it would be if the hours were counted on past the day
gmtime_hours_run_on(secs) ==
    [tm_hour |-> secs \div 3600,
     tm_min  |-> (secs \div 60) % 60,
     tm_sec  |-> secs % 60]

\* time.gmtime(secs): the time of day, secs after the epoch (midnight)
gmtime(secs) ==
    [tm_hour |-> (secs \div 3600) % 24,
     tm_min  |-> (secs \div 60) % 60,
     tm_sec  |-> secs % 60]

\* time.strftime("%H:%M:%S,", t)
strftime(t) ==
    TwoDigits(t.tm_hour) \o <<":">> \o TwoDigits(t.tm_min) \o <<":">>
        \o TwoDigits(t.tm_sec) \o <<",">>

\* The fraction in thousandths, as ".3f" rounds it: 0..1000.
Round3(micro) ==
    LET q == micro \div 1000
        r == micro % 1000
    IN  IF r > 500 \/ (r = 500 /\ tieUp) THEN q + 1 ELSE q

\* f"{fraction:.3f}" of a fraction in [0, 1)
Format3f(micro) ==
    LET n == Round3(micro)
    IN  <<Digits[(n \div 1000) + 1], ".">> \o ThreeDigits(n % 1000)

float_to_srt_time_format(d) ==
    LET fraction == modf(d)[1]
        whole    == modf(d)[2]
        time_fmt == strftime(gmtime(whole))
        ms       == replace(Format3f(fraction), <<"0", ".">>, <<>>)
    IN  time_fmt \o ms

\* timestamp / 1000: milliseconds to seconds
DivideBy1000(ts) ==
    [whole |-> ts.ms \div 1000, micro |-> (ts.ms % 1000) * 1000 + ts.sub]

timestamp_to_srt_time_format(timestamp) ==
    float_to_srt_time_format(DivideBy1000(timestamp))

(***************************************************************************)
(* The inputs of the formatting functions.                                 *)
(***************************************************************************)
ClockSamples ==
    { h * 3600 + m * 60 + s : h \in 0..MaxHours, m \in {0, 1, 59}, s \in {0, 3, 59} }

MilliSamples == {0, 3, 119, 123, 890, 999}

WholeMillis == { [ms |-> c * 1000 + f, sub |-> 0] : c \in ClockSamples, f \in MilliSamples }

MicroSamples ==
    {0, 1, 499, 500, 501, 1700, 62500, 890000, 899999, 999499, 999500, 999501, 999999}

DaySeconds == { h * 3600 + m * 60 + s : h \in {0, 1, 23}, m \in {0, 59}, s \in {0, 3, 59} }

Durations == { [whole |-> w, micro |-> u] : w \in DaySeconds, u \in MicroSamples }

(***************************************************************************)
(* The formatting functions called on their own: one call in a run, since  *)
(* they are static and keep nothing between calls.                         *)
(***************************************************************************)
InitTime ==
    /\ caption = NoCaption
    /\ remote = None
    /\ tieUp \in BOOLEAN
    /\ call = NoCall
    /\ ret = Return(None)
    /\ disk = NoDisk
    /\ resolved = <<>>

FloatToSrt ==
    \E d \in Durations :
        /\ call.op = ""
        /\ call' = [op |-> "float_to_srt_time_format", arg |-> d]
        /\ ret' = Return(float_to_srt_time_format(d))
        /\ UNCHANGED <<caption, remote, tieUp, disk, resolved>>

TimestampToSrt ==
    \E ts \in WholeMillis :
        /\ call.op = ""
        /\ call' = [op |-> "timestamp_to_srt_time_format", arg |-> ts]
        /\ ret' = Return(timestamp_to_srt_time_format(ts))
        /\ UNCHANGED <<caption, remote, tieUp, disk, resolved>>

NextTime == FloatToSrt \/ TimestampToSrt

SpecTime == InitTime /\ [][NextTime]_vars

(***************************************************************************)
(* xml.etree.ElementTree: an element is [tag, attrib, text, children]; the *)
(* text handed to fromstring is [wf, root], wf telling whether it is       *)
(* well-formed XML.                                                        *)
(***************************************************************************)
Elem(tag, attrib, text, children) ==
    [tag |-> tag, attrib |-> attrib, text |-> text, children |-> children]

\* ElementTree.fromstring(xml_captions)
fromstring(xml) == IF xml.wf THEN Return(xml.root) ELSE Raise("ParseError")

\* element.findall(tag): the direct children with that tag, in document order
findall(element, tag) == SelectSeq(element.children, LAMBDA c : c.tag = tag)

\* The None that element.find returns.
NoElement == Elem("", <<>>, None, <<>>)

\* element.find(tag): the first such child, or None
find(element, tag) ==
    IF findall(element, tag) = <<>> THEN NoElement
    ELSE Head(findall(element, tag))

(***************************************************************************)
(* float(str), for the decimal literals digits[.digits] with at most three *)
(* digits after the point; signs, exponents, inf and nan are not modelled. *)
(***************************************************************************)
IsDigit(c) == \E n \in 1..Len(Digits) : Digits[n] = c

DigitValue(c) == (CHOOSE n \in 1..Len(Digits) : Digits[n] = c) - 1

RECURSIVE int(_)
\* int(s) of a digit string ("" counts 0)
int(s) == IF s = <<>> THEN 0
          ELSE int(SubSeq(s, 1, Len(s) - 1)) * 10 + DigitValue(s[Len(s)])

AllDigits(s) == \A k \in 1..Len(s) : IsDigit(s[k])

float(s) ==
    LET parts == split(s, ".")
        ipart == parts[1]
        fpart == IF Len(parts) = 2 THEN parts[2] ELSE <<>>
        numeric == /\ Len(parts) <= 2
                   /\ AllDigits(ipart) /\ AllDigits(fpart)
                   /\ Len(ipart) + Len(fpart) >= 1
                   /\ Len(fpart) <= 3
    IN  IF numeric
        THEN Return([ms |-> int(ipart),
                     sub |-> int(SubSeq(fpart \o <<"0", "0", "0">>, 1, 3))])
        ELSE Raise("ValueError")

\* float(p.attrib[key])
AttribFloat(p, key) ==
    IF key \in DOMAIN p.attrib THEN float(p.attrib[key]) ELSE Raise("KeyError")

(***************************************************************************)
(* html.unescape, for the five predefined entities in their terminated     *)
(* form; one pass from the left, as re.sub makes it.                       *)
(***************************************************************************)
Entities ==
    { <<(<<"&", "a", "m", "p", ";">>), "&">>,
      <<(<<"&", "l", "t", ";">>), "<">>,
      <<(<<"&", "g", "t", ";">>), ">">>,
      <<(<<"&", "q", "u", "o", "t", ";">>), "\"">>,
      <<(<<"&", "#", "3", "9", ";">>), "'">> }

RECURSIVE UnescapeFrom(_, _, _)
UnescapeFrom(s, i, acc) ==
    IF i > Len(s) THEN acc
    ELSE IF \E e \in Entities : IsPrefixAt(s, i, e[1])
         THEN LET e == CHOOSE x \in Entities : IsPrefixAt(s, i, x[1])
              IN  UnescapeFrom(s, i + Len(e[1]), Append(acc, e[2]))
         ELSE UnescapeFrom(s, i + 1, Append(acc, s[i]))

unescape(s) == UnescapeFrom(s, 1, <<>>)

(***************************************************************************)
(* The text of a paragraph, shared by the two conversions.                 *)
(***************************************************************************)
RECURSIVE reduce(_, _, _)
\* reduce(lambda acc, s: acc + (s.text or ""), spans, acc)
reduce(spans, i, acc) ==
    IF i > Len(spans) THEN acc
    ELSE reduce(spans, i + 1,
                acc \o (IF spans[i].text = None THEN <<>> ELSE spans[i].text))

ParagraphText(p) == reduce(findall(p, "s"), 1, <<>>)

ParagraphCaption(p) ==
    unescape(replace(replace(ParagraphText(p), <<"\n">>, <<" ">>),
                     <<" ", " ">>, <<" ">>))

(***************************************************************************)
(* Caption.xml_caption_to_transcript                                       *)
(***************************************************************************)
RECURSIVE TranscriptLoop_keep_empty(_, _, _)
\* The loop as it would be without the test caption != ""
TranscriptLoop_keep_empty(ps, i, segments) ==
    IF i > Len(ps) THEN segments
    ELSE TranscriptLoop_keep_empty(ps, i + 1,
                                   Append(segments, ParagraphCaption(ps[i])))

RECURSIVE TranscriptLoop_drop_blank(_, _, _)
\* The loop as it would be if it tested caption.strip() != ""
TranscriptLoop_drop_blank(ps, i, segments) ==
    IF i > Len(ps) THEN segments
    ELSE LET caption_ == ParagraphCaption(ps[i])
         IN  TranscriptLoop_drop_blank(ps, i + 1,
                 IF strip(caption_) # <<>> THEN Append(segments, caption_)
                                          ELSE segments)

RECURSIVE TranscriptLoop(_, _, _)
TranscriptLoop(ps, i, segments) ==
    IF i > Len(ps) THEN segments
    ELSE LET caption_ == ParagraphCaption(ps[i])
         IN  TranscriptLoop(ps, i + 1,
                 IF caption_ # <<>> THEN Append(segments, caption_)
                                   ELSE segments)

xml_caption_to_transcript(xml_captions) ==
    LET root == fromstring(xml_captions)
    IN  IF root.raised # "" THEN root
        ELSE LET child == find(root.value, "body")
                 segments == IF child = NoElement THEN <<>>
                             ELSE TranscriptLoop(findall(child, "p"), 1, <<>>)
             IN  ReturnTraced(strip(join(<<" ">>, segments)), child = NoElement)

(***************************************************************************)
(* Caption.xml_caption_to_srt                                              *)
(***************************************************************************)
append_segment(segments, caption_, start, end, sequence_number) ==
    LET line == str(sequence_number) \o <<"\n">>
                  \o timestamp_to_srt_time_format(start)
                  \o <<" ", "-", "-", ">", " ">>
                  \o timestamp_to_srt_time_format(end) \o <<"\n">>
                  \o caption_ \o <<"\n">>
    IN  Append(segments, line)

\* The end as it would be if every cue ended at its own paragraph's d
SrtEnd_own_duration(ps, i) == AttribFloat(ps[i + 1], "d")

\* The end as it would be if the last cue ended at t + d
SrtEnd_start_plus_duration(ps, i) ==
    IF i + 1 < Len(ps) THEN AttribFloat(ps[i + 2], "t")
    ELSE LET t == AttribFloat(ps[i + 1], "t")
             d == AttribFloat(ps[i + 1], "d")
         IN  IF t.raised # "" THEN t
             ELSE IF d.raised # "" THEN d
             ELSE Return([ms  |-> t.value.ms + d.value.ms
                                    + ((t.value.sub + d.value.sub) \div 1000),
                          sub |-> (t.value.sub + d.value.sub) % 1000])

\* The end of cue i (0-based): the next paragraph's t, or the last one's own d.
SrtEnd(ps, i) ==
    IF i + 1 < Len(ps) THEN AttribFloat(ps[i + 2], "t")
                       ELSE AttribFloat(ps[i + 1], "d")

RECURSIVE SrtLoop(_, _, _)
\* The loop inside try: an exception leaves it with the segments appended so far.
SrtLoop(ps, i, segments) ==
    IF i >= Len(ps) THEN [segments |-> segments, failed |-> FALSE]
    ELSE LET p     == ps[i + 1]
             start == AttribFloat(p, "t")
             end   == SrtEnd(ps, i)
         IN  IF start.raised # "" \/ end.raised # ""
             THEN [segments |-> segments, failed |-> TRUE]
             ELSE SrtLoop(ps, i + 1,
                          append_segment(segments, ParagraphCaption(p),
                                         start.value, end.value, i + 1))

SrtSegments(root) ==
    LET child == find(root, "body")
    IN  IF child = NoElement THEN [segments |-> <<>>, failed |-> TRUE]
        ELSE SrtLoop(findall(child, "p"), 0, <<>>)

xml_caption_to_srt(xml_captions) ==
    LET root == fromstring(xml_captions)
    IN  IF root.raised # "" THEN root
        ELSE LET r == SrtSegments(root.value)
             IN  ReturnTraced(strip(join(<<"\n">>, r.segments)), r.failed)

(***************************************************************************)
(* The documents request.get returns.                                      *)
(***************************************************************************)
Malformed == [wf |-> FALSE, root |-> None]

NoAttrib == [k \in {} |-> <<>>]

Attrib(t, d) ==
    [k \in (IF t = None THEN {} ELSE {"t"}) \cup (IF d = None THEN {} ELSE {"d"})
       |-> IF k = "t" THEN t ELSE d]

Span(text) == Elem("s", NoAttrib, text, <<>>)

Spans(texts) == [k \in 1..Len(texts) |-> Span(texts[k])]

Timedtext(children) ==
    [wf |-> TRUE, root |-> Elem("timedtext", NoAttrib, None, children)]

Body(children) == Elem("body", NoAttrib, None, children)

\* The t and d a paragraph may carry at position k: absent, not a number, or
\* the number of that position.
TimeAt(k) == <<"3", "2", Digits[(k % 10) + 1]>>

DurationAt(k) == <<Digits[(k % 10) + 1], ".", "7">>

TimedParagraphs(k) ==
    { Elem("p", Attrib(t, d), None, Spans(<<(<<Digits[(k % 10) + 1]>>)>>)) :
        t \in {None, <<"x">>, TimeAt(k)},
        d \in {None, <<"x">>, DurationAt(k)} }

RECURSIVE TimedSeqs(_)
\* The paragraph lists of length n, the k-th drawn from TimedParagraphs(k).
TimedSeqs(n) ==
    IF n = 0 THEN {<<>>}
    ELSE { Append(q, p) : q \in TimedSeqs(n - 1), p \in TimedParagraphs(n) }

TimedDocs ==
    UNION { { Timedtext(<<Body(ps)>>) : ps \in TimedSeqs(n) } : n \in 0..MaxParas }

\* The texts of the spans of a paragraph.
SpanTexts ==
    { <<>>,
      <<None>>,
      <<(<<"A">>)>>,
      <<(<<" ">>)>>,
      <<(<<"B">>), None, (<<"C">>)>>,
      <<(<<"a", "\n", "b">>)>>,
      <<(<<"a", " ", " ", " ", "b">>)>>,
      <<(<<"&", "a", "m", "p", ";", "l", "t", ";">>)>> }

TextParagraphs(k) ==
    { Elem("p", Attrib(TimeAt(k), DurationAt(k)), None, Spans(texts)) :
        texts \in SpanTexts }

RECURSIVE TextSeqs(_)
TextSeqs(n) ==
    IF n = 0 THEN {<<>>}
    ELSE { Append(q, p) : q \in TextSeqs(n - 1), p \in TextParagraphs(n) }

TextDocs ==
    UNION { { Timedtext(<<Body(ps)>>) : ps \in TextSeqs(n) } : n \in 0..MaxParas }

\* The document of test_generate_srt_captions, its two captions shortened.
TestDoc ==
    Timedtext(<<Body(<<
        Elem("w", Attrib(<<"0">>, None), None, <<>>),
        Elem("p", Attrib(<<"3", "2", "0">>, <<"1", ".", "7">>), None,
             Spans(<<(<<"[", "H", "]", "\n", "c">>)>>)),
        Elem("p", Attrib(<<"1", "7", "5", "0">>, <<"2", "4", "1", "0">>),
             <<" ">>, <<>>),
        Elem("p", Attrib(<<"1", "7", "6", "0">>, <<"5", "1", "1", "9">>), None,
             Spans(<<(<<"d">>)>>)) >>)>>)

\* The same paragraphs with the middle one's blank inside a span.
BlankSpanDoc ==
    Timedtext(<<Body(<<
        Elem("p", Attrib(<<"3", "2", "0">>, <<"1", ".", "7">>), None,
             Spans(<<(<<"A">>)>>)),
        Elem("p", Attrib(<<"1", "7", "5", "0">>, <<"2", "4", "1", "0">>), None,
             Spans(<<(<<" ">>)>>)),
        Elem("p", Attrib(<<"1", "7", "6", "0">>, <<"5", "1", "1", "9">>), None,
             Spans(<<(<<"B">>)>>)) >>)>>)

NoBodyDoc == Timedtext(<<Elem("head", NoAttrib, None, <<>>)>>)

Docs == TimedDocs \cup TextDocs \cup {TestDoc, BlankSpanDoc, NoBodyDoc, Malformed}

(***************************************************************************)
(* The two conversions called on a fetched document.                       *)
(***************************************************************************)
InitXml ==
    /\ caption = NoCaption
    /\ remote \in Docs
    /\ tieUp \in BOOLEAN
    /\ call = NoCall
    /\ ret = Return(None)
    /\ disk = NoDisk
    /\ resolved = <<>>

\* Caption.xml_captions: request.get(self.url)
xml_captions == remote

GenerateSrt ==
    /\ call.op = ""
    /\ call' = [op |-> "generate_srt_captions", arg |-> xml_captions]
    /\ ret' = xml_caption_to_srt(xml_captions)
    /\ UNCHANGED <<caption, remote, tieUp, disk, resolved>>

GenerateTranscript ==
    /\ call.op = ""
    /\ call' = [op |-> "generate_transcript", arg |-> xml_captions]
    /\ ret' = xml_caption_to_transcript(xml_captions)
    /\ UNCHANGED <<caption, remote, tieUp, disk, resolved>>

NextXml == GenerateSrt \/ GenerateTranscript

SpecXml == InitXml /\ [][NextXml]_vars

(***************************************************************************)
(* Caption.__init__: a caption track is a dict, modelled as a function on  *)
(* the keys it holds.                                                      *)
(***************************************************************************)
RECURSIVE RunsName(_, _, _)
\* for el in name_dict['runs']: if 'text' in el: self.name = el['text']
RunsName(runs, i, name) ==
    IF i > Len(runs) THEN name
    ELSE RunsName(runs, i + 1,
                  IF "text" \in DOMAIN runs[i] THEN runs[i]["text"] ELSE name)

\* The code as it would be if only the preceding '.' were removed
CaptionCode_leading_only(vssId) ==
    SubSeq(vssId, LStripFrom(vssId, 1, {"."}), Len(vssId))

\* self.code = caption_track["vssId"].strip('.')
CaptionCode(vssId) == strip_chars(vssId, {"."})

Caption_init(caption_track) ==
    LET url == IF "baseUrl" \in DOMAIN caption_track
               THEN caption_track["baseUrl"] ELSE None
    IN  IF "name" \notin DOMAIN caption_track THEN Raise("KeyError")
        ELSE LET name_dict == caption_track["name"]
             IN  IF "simpleText" \notin DOMAIN name_dict
                    /\ "runs" \notin DOMAIN name_dict
                 THEN Raise("KeyError")
                 ELSE IF "vssId" \notin DOMAIN caption_track THEN Raise("KeyError")
                 ELSE Return(
                     [built |-> TRUE,
                      url   |-> url,
                      name  |-> IF "simpleText" \in DOMAIN name_dict
                                THEN name_dict["simpleText"]
                                ELSE RunsName(name_dict["runs"], 1, Unset),
                      code  |-> CaptionCode(caption_track["vssId"])])

(***************************************************************************)
(* pytube.helpers, which Caption.download calls.                           *)
(***************************************************************************)
ForbiddenChars ==
    {"\"", "#", "$", "%", "'", "*", ",", ".", "/", ":", ";", "<", ">", "?",
     "\\", "^", "|", "~"}

\* safe_filename(s): s without the characters a file name may not hold
safe_filename(s) == SelectSeq(s, LAMBDA c : c \notin ForbiddenChars)

Cwd == <<"/", "w">>

\* os.path.join(a, b)
os_path_join(a, b) ==
    IF b # <<>> /\ b[1] = "/" THEN b
    ELSE IF a = <<>> \/ a[Len(a)] = "/" THEN a \o b
    ELSE a \o <<"/">> \o b

\* target_directory(output_path): the directory to write to, made absolute
target_directory(output_path) ==
    IF output_path = None \/ output_path = <<>> THEN Cwd
    ELSE IF output_path[1] = "/" THEN output_path
    ELSE os_path_join(Cwd, output_path)

(***************************************************************************)
(* Caption.download                                                        *)
(***************************************************************************)
\* The title without a trailing ".srt" or ".xml"
TitleStem(title) ==
    IF endswith(title, <<".", "s", "r", "t">>) \/ endswith(title, <<".", "x", "m", "l">>)
    THEN join(<<".">>, SubSeq(split(title, "."), 1, Len(split(title, ".")) - 1))
    ELSE title

\* The extension the format selects
Extension(format) ==
    IF format = "srt" THEN <<".", "s", "r", "t">>
    ELSE IF format = "xml" THEN <<".", "x", "m", "l">>
    ELSE <<".", "t", "x", "t">>

DownloadName(self, title, format, filename_prefix) ==
    LET stem     == TitleStem(title)
        prefixed == IF filename_prefix # None /\ filename_prefix # <<>>
                    THEN safe_filename(filename_prefix) \o stem
                    ELSE stem
    IN  safe_filename(prefixed) \o <<" ", "(">> \o self.code \o <<")">>
            \o Extension(format)

\* What the with block writes: the conversion's outcome, or the raw document.
DownloadContent(format) ==
    IF format = "srt" THEN xml_caption_to_srt(xml_captions)
    ELSE IF format = "xml" THEN Return(xml_captions)
    ELSE xml_caption_to_transcript(xml_captions)

(***************************************************************************)
(* The caption tracks, and the arguments of download.                      *)
(***************************************************************************)
NameDicts ==
    { [k \in {"simpleText"} |-> <<"n", "1">>],
      [k \in {"runs"} |-> << [t \in {"text"} |-> <<"a">>],
                             [t \in {} |-> <<>>],
                             [t \in {"text"} |-> <<"b">>] >>],
      [k \in {"runs"} |-> << [t \in {} |-> <<>>] >>],
      [k \in {"runs"} |-> <<>>],
      [k \in {} |-> <<>>] }

RECURSIVE VssIdsOf(_)
\* The strings of '.' and 'e' of length n
VssIdsOf(n) ==
    IF n = 0 THEN {<<>>}
    ELSE { Append(v, c) : v \in VssIdsOf(n - 1), c \in {".", "e"} }

VssIds ==
    UNION { VssIdsOf(n) : n \in 0..MaxVssId }
        \cup { <<".", "e", "n">>, <<"a", ".", "e", "n">>, <<".", "e", "n", ".">> }

CaptionTracks ==
    { [k \in (IF hasUrl THEN {"baseUrl"} ELSE {})
               \cup (IF hasName THEN {"name"} ELSE {})
               \cup (IF hasVssId THEN {"vssId"} ELSE {})
         |-> IF k = "baseUrl" THEN <<"u">> ELSE IF k = "name" THEN name ELSE vssId] :
        hasUrl \in BOOLEAN, hasName \in BOOLEAN, hasVssId \in BOOLEAN,
        name \in NameDicts, vssId \in VssIds }

Titles ==
    { <<"t">>,
      <<"t", ".", "x", "m", "l">>,
      <<"t", ".", "s", "r", "t">>,
      <<"t", ".", "x", "m", "l", ".", "s", "r", "t">>,
      <<"t", ".", "t", "x", "t">>,
      <<"a", "/", "b">>,
      <<".", "s", "r", "t">> }

Prefixes == { None, <<>>, <<"1", " ">>, <<"p", ".">> }

Formats == { "srt", "xml", "txt", "vtt" }

OutputPaths == { None, <<"b">>, <<"/", "t">> }

(***************************************************************************)
(* A Caption is constructed and then asked to download.                    *)
(***************************************************************************)
InitCaption ==
    /\ caption = NoCaption
    /\ remote \in {Malformed, TestDoc}
    /\ tieUp \in BOOLEAN
    /\ call = NoCall
    /\ ret = Return(None)
    /\ disk = NoDisk
    /\ resolved = <<>>

Construct ==
    \E caption_track \in CaptionTracks :
        /\ call.op = ""
        /\ call' = [op |-> "__init__", arg |-> caption_track]
        /\ LET r == Caption_init(caption_track)
           IN  /\ ret' = [r EXCEPT !.value = None]
               /\ caption' = IF r.raised = "" THEN r.value ELSE caption
        /\ UNCHANGED <<remote, tieUp, disk, resolved>>

Download ==
    \E title \in Titles, format \in Formats,
       output_path \in OutputPaths, filename_prefix \in Prefixes :
        /\ call.op = "__init__" /\ caption.built
        /\ call' = [op  |-> "download",
                    arg |-> [title |-> title, format |-> format,
                             output_path |-> output_path,
                             filename_prefix |-> filename_prefix]]
        /\ LET filename  == DownloadName(caption, title, format, filename_prefix)
               file_path == os_path_join(target_directory(output_path), filename)
               written   == DownloadContent(format)
           IN  /\ resolved' = Append(resolved, output_path)
               /\ disk' = [path    |-> file_path,
                           content |-> IF written.raised = "" THEN written.value
                                       ELSE <<>>]
               /\ ret' = IF written.raised = "" THEN Return(file_path)
                         ELSE Raise(written.raised)
        /\ UNCHANGED <<caption, remote, tieUp>>

NextCaption == Construct \/ Download

SpecCaption == InitCaption /\ [][NextCaption]_vars

(***************************************************************************)
(* Properties of construction and download.                                *)
(***************************************************************************)
\* c is v without its leading and trailing '.' characters.
DotStripped(v, c) ==
    \E i \in 0..Len(v), j \in 0..Len(v) :
        /\ i + j <= Len(v)
        /\ \A k \in 1..i : v[k] = "."
        /\ \A k \in (Len(v) - j + 1)..Len(v) : v[k] = "."
        /\ c = SubSeq(v, i + 1, Len(v) - j)
        /\ c # <<>> => (c[1] # "." /\ c[Len(c)] # ".")

\* C8: every Caption whose construction succeeds, for any string vssId (the
\* empty string and strings of '.' included), has a non-empty code, equal to
\* vssId with all leading and trailing '.' characters removed.
C8_CodeNonEmpty ==
    (call.op = "__init__" /\ caption.built) =>
        /\ caption.code # <<>>
        /\ DotStripped(call.arg["vssId"], caption.code)

\* C8, amended: every Caption whose construction succeeds has a code equal to
\* vssId with all leading and trailing '.' characters removed; the code is
\* empty exactly when vssId is empty or made only of '.' characters.
C8_CodeIsStrippedVssId ==
    (call.op = "__init__" /\ caption.built) =>
        LET vssId == call.arg["vssId"]
        IN  /\ DotStripped(vssId, caption.code)
            /\ caption.code = <<>> <=> (\A k \in 1..Len(vssId) : vssId[k] = ".")

\* C8, reached: a Caption was constructed from the vssId ".en.".
C8_Reached ==
    /\ call.op = "__init__" /\ caption.built
    /\ call.arg["vssId"] = <<".", "e", "n", ".">>
    /\ caption.code = <<"e", "n">>

\* The path download is to open: the resolved directory, a separator, the
\* sanitized prefix and title without one trailing ".srt" or ".xml", the code
\* in parentheses, and the extension of the format.
DownloadPath(code, a) ==
    LET stem == IF \/ endswith(a.title, <<".", "s", "r", "t">>)
                   \/ endswith(a.title, <<".", "x", "m", "l">>)
                THEN SubSeq(a.title, 1, Len(a.title) - 4)
                ELSE a.title
        pre  == IF a.filename_prefix = None THEN <<>> ELSE a.filename_prefix
        ext  == CASE a.format = "srt" -> <<"s", "r", "t">>
                  [] a.format = "xml" -> <<"x", "m", "l">>
                  [] OTHER -> <<"t", "x", "t">>
    IN  target_directory(a.output_path) \o <<"/">> \o safe_filename(pre \o stem)
            \o <<" ", "(">> \o code \o <<")", ".">> \o ext

\* C7: for every title, optional prefix and format in {srt, xml, txt}, download
\* opens for writing, and returns, the path <resolved directory>/<name>, name
\* being the sanitized prefix + title (one trailing ".srt" or ".xml" removed)
\* followed by " (<code>)." and srt, xml or txt; the directory resolver is
\* called with the given output_path.
C7_DownloadReturnsPath ==
    (call.op = "download" /\ call.arg.format \in {"srt", "xml", "txt"}) =>
        /\ disk.path = DownloadPath(caption.code, call.arg)
        /\ ret = Return(DownloadPath(caption.code, call.arg))
        /\ resolved = <<call.arg.output_path>>

\* C7, as far as the code goes: that path is the one opened, the resolver is
\* called with output_path, and the path is returned unless the conversion of
\* the fetched document raises (see C1), which leaves download by the exception.
C7_DownloadOpensPath ==
    (call.op = "download" /\ call.arg.format \in {"srt", "xml", "txt"}) =>
        /\ disk.path = DownloadPath(caption.code, call.arg)
        /\ ret.raised = "" => ret.value = DownloadPath(caption.code, call.arg)
        /\ ret.raised # "" => (ret.raised = "ParseError" /\ ~remote.wf)
        /\ resolved = <<call.arg.output_path>>

(***************************************************************************)
(* Properties of the formatting functions.                                 *)
(***************************************************************************)
\* The clock string HH:MM:SS,mmm of a whole number of milliseconds.
ClockString(ms) ==
    LET two(n)   == <<Digits[(n \div 10) + 1], Digits[(n % 10) + 1]>>
        three(n) == <<Digits[(n \div 100) + 1]>> \o two(n % 100)
    IN  two((ms \div 3600000) % 24) \o <<":">> \o two((ms \div 60000) % 60)
            \o <<":">> \o two((ms \div 1000) % 60) \o <<",">> \o three(ms % 1000)

\* C4: for a whole number of milliseconds ms >= 0, timestamp_to_srt_time_format(ms)
\* is float_to_srt_time_format(ms / 1000) and is the string HH:MM:SS,mmm with
\* mmm = ms mod 1000, SS = floor(ms / 1000) mod 60, MM = floor(ms / 60000) mod 60,
\* HH = floor(ms / 3600000) mod 24, zero-padded; at 24 h the hours wrap to 00.
C4_WholeMillisClock ==
    (call.op = "timestamp_to_srt_time_format" /\ call.arg.sub = 0) =>
        /\ ret.raised = ""
        /\ ret.value = ClockString(call.arg.ms)
        /\ ret.value = float_to_srt_time_format(
                           [whole |-> call.arg.ms \div 1000,
                            micro |-> (call.arg.ms % 1000) * 1000])

\* C4, reached: exactly 24 h was formatted, and the hours read 00.
C4_Reached ==
    /\ call.op = "timestamp_to_srt_time_format"
    /\ call.arg = [ms |-> 86400000, sub |-> 0]
    /\ ret.value = <<"0", "0", ":", "0", "0", ":", "0", "0", ",", "0", "0", "0">>

\* C5: for a duration 0 <= d < 86400 s, at microsecond resolution,
\* float_to_srt_time_format(d) has the shape HH:MM:SS,mmm, the part after the
\* comma being exactly three digits, the fraction of d rounded to three places.
C5_ThreeFractionDigits ==
    (call.op = "float_to_srt_time_format" /\ call.arg.whole < 86400) =>
        LET v    == ret.value
            mmm  == SubSeq(v, 10, Len(v))
        IN  /\ ret.raised = ""
            /\ Len(v) = 12
            /\ \A k \in {1, 2, 4, 5, 7, 8, 10, 11, 12} : IsDigit(v[k])
            /\ v[3] = ":" /\ v[6] = ":" /\ v[9] = ","
            /\ LET n == int(mmm) * 1000 - call.arg.micro
               IN  -500 <= n /\ n <= 500

(***************************************************************************)
(* Properties of the two conversions.                                      *)
(***************************************************************************)
Converted(op) == call.op = op /\ call.arg.wf

HasBody(xml) == findall(xml.root, "body") # <<>>

\* The paragraphs of a document with a body.
Paragraphs(xml) == findall(find(xml.root, "body"), "p")

HasNumber(p, key) == AttribFloat(p, key).raised = ""

Stamp(p, key) == timestamp_to_srt_time_format(AttribFloat(p, key).value)

\* Every paragraph has a numeric t and the last one a numeric d.
WellTimed(ps) ==
    /\ \A i \in 1..Len(ps) : HasNumber(ps[i], "t")
    /\ Len(ps) >= 1 => HasNumber(ps[Len(ps)], "d")

\* The output read back as SRT: its lines, the timing lines among them, and
\* the fields of cue i, which starts at line 4 (i - 1) + 1.
Lines(out) ==
    LET brk    == { k \in 1..Len(out) : out[k] = "\n" }
        n      == Cardinality(brk)
        pos(j) == IF j = 0 THEN 0
                  ELSE IF j = n + 1 THEN Len(out) + 1
                  ELSE CHOOSE b \in brk : Cardinality({ x \in brk : x < b }) = j - 1
    IN  [j \in 1..(n + 1) |-> SubSeq(out, pos(j - 1) + 1, pos(j) - 1)]

TimingFields(line) == split(line, " ")

IsTiming(line) ==
    /\ Len(TimingFields(line)) = 3
    /\ TimingFields(line)[2] = <<"-", "-", ">">>

CueNumber(lines, i) == lines[4 * (i - 1) + 1]

CueStart(lines, i) == TimingFields(lines[4 * (i - 1) + 2])[1]

CueEnd(lines, i) == TimingFields(lines[4 * (i - 1) + 2])[3]

CueText(lines, i) == lines[4 * (i - 1) + 3]

\* The lines hold exactly the cues 1..n of the paragraphs ps, in order, each
\* but the last of ps ending where the next paragraph starts.
HoldsCues(lines, ps, n) ==
    /\ { k \in 1..Len(lines) : IsTiming(lines[k]) } = { 4 * (i - 1) + 2 : i \in 1..n }
    /\ \A i \in 1..n :
          /\ CueNumber(lines, i) = str(i)
          /\ CueStart(lines, i) = Stamp(ps[i], "t")
          /\ i < Len(ps) => CueEnd(lines, i) = Stamp(ps[i + 1], "t")
    /\ \A i \in 1..(n - 1) :
          /\ CueEnd(lines, i) = CueStart(lines, i + 1)
          /\ CueText(lines, i) = ParagraphCaption(ps[i])
          /\ lines[4 * i] = <<>>

\* C1: for a text that is not well-formed XML, xml_caption_to_transcript and
\* xml_caption_to_srt return the empty string and raise nothing.
C1_MalformedYieldsEmpty ==
    (call.op \in {"generate_srt_captions", "generate_transcript"} /\ ~call.arg.wf)
        => (ret.raised = "" /\ ret.value = <<>>)

\* C2: for a document with N >= 1 paragraphs, each with a numeric t and the
\* last with a numeric d, xml_caption_to_srt emits exactly N cue blocks in
\* document order, numbered 1..N, cue i starting at the formatted t of
\* paragraph i, and for i < N ending where cue i + 1 starts.
C2_SrtCues ==
    (/\ Converted("generate_srt_captions") /\ HasBody(call.arg)
     /\ Len(Paragraphs(call.arg)) >= 1 /\ WellTimed(Paragraphs(call.arg))) =>
        /\ ret.raised = ""
        /\ HoldsCues(Lines(ret.value), Paragraphs(call.arg), Len(Paragraphs(call.arg)))

\* C2, reached: a well-timed document of at least two paragraphs was converted.
C2_Reached ==
    /\ Converted("generate_srt_captions") /\ HasBody(call.arg)
    /\ Len(Paragraphs(call.arg)) >= 2 /\ WellTimed(Paragraphs(call.arg))
    /\ CueEnd(Lines(ret.value), 1) = CueStart(Lines(ret.value), 2)

\* The captions of the paragraphs, those that are empty left out.
KeptCaptions(ps) ==
    SelectSeq([i \in 1..Len(ps) |-> ParagraphCaption(ps[i])], LAMBDA c : c # <<>>)

\* C3: for a document with a body, xml_caption_to_transcript returns the
\* normalized texts of the paragraphs whose normalized text is not empty, in
\* document order, joined by one space, the whole trimmed; with no paragraphs,
\* or only paragraphs of empty text, it returns the empty string.
C3_Transcript ==
    (Converted("generate_transcript") /\ HasBody(call.arg)) =>
        LET ps == Paragraphs(call.arg)
        IN  /\ ret.raised = ""
            /\ ret.value = strip(join(<<" ">>, KeptCaptions(ps)))
            /\ (\A i \in 1..Len(ps) : ParagraphCaption(ps[i]) = <<>>)
                   => ret.value = <<>>

\* C3, reached: a transcript of three paragraphs, the middle one of empty text.
C3_Reached ==
    /\ Converted("generate_transcript") /\ HasBody(call.arg)
    /\ LET ps == Paragraphs(call.arg)
       IN  /\ Len(ps) = 3
           /\ ParagraphCaption(ps[1]) # <<>>
           /\ ParagraphCaption(ps[2]) = <<>>
           /\ ParagraphCaption(ps[3]) # <<>>
           /\ ret.value = ParagraphCaption(ps[1]) \o <<" ">> \o ParagraphCaption(ps[3])

\* Iteration i (1-based) of the loop of xml_caption_to_srt reads a t or a d
\* that is absent or not a number.
ReadFails(ps, i) ==
    \/ ~HasNumber(ps[i], "t")
    \/ i < Len(ps) /\ ~HasNumber(ps[i + 1], "t")
    \/ i = Len(ps) /\ ~HasNumber(ps[i], "d")

\* The iterations before the first one that fails.
CuesBeforeFailure(ps) ==
    Cardinality({ i \in 1..Len(ps) : \A j \in 1..i : ~ReadFails(ps, j) })

\* C6: for a document with a body in which some paragraph has no numeric t,
\* or the last has no numeric d, xml_caption_to_srt returns the empty string
\* (no cue of an earlier paragraph is emitted) and raises nothing.
C6_TimingErrorYieldsEmpty ==
    (/\ Converted("generate_srt_captions") /\ HasBody(call.arg)
     /\ ~WellTimed(Paragraphs(call.arg))) =>
        (ret.raised = "" /\ ret.value = <<>>)

\* C6, as far as the code goes: for such a document xml_caption_to_srt raises
\* nothing and returns the cues of the paragraphs before the first iteration
\* that reads a missing or non-numeric t or d; the empty string only when that
\* is the first iteration.
C6_TimingErrorKeepsEarlierCues ==
    (/\ Converted("generate_srt_captions") /\ HasBody(call.arg)
     /\ ~WellTimed(Paragraphs(call.arg))) =>
        LET ps == Paragraphs(call.arg)
        IN  /\ ret.raised = ""
            /\ HoldsCues(Lines(ret.value), ps, CuesBeforeFailure(ps))
            /\ CuesBeforeFailure(ps) < Len(ps)
            /\ CuesBeforeFailure(ps) = 0 => ret.value = <<>>

\* The document with the d of every paragraph but the last removed.
WithoutEarlierDurations(xml) ==
    LET strip_d(e, last) ==
            IF e.tag = "p" /\ ~last
            THEN [e EXCEPT !.attrib = [k \in DOMAIN e.attrib \ {"d"} |-> e.attrib[k]]]
            ELSE e
        in_body(b) ==
            LET lastp == CHOOSE k \in 0..Len(b.children) :
                            /\ k > 0 => b.children[k].tag = "p"
                            /\ \A j \in (k + 1)..Len(b.children) : b.children[j].tag # "p"
                            /\ k = 0 => \A j \in 1..Len(b.children) : b.children[j].tag # "p"
            IN  [b EXCEPT !.children =
                    [k \in 1..Len(b.children) |-> strip_d(b.children[k], k = lastp)]]
        first == CHOOSE k \in 1..Len(xml.root.children) :
                    /\ xml.root.children[k].tag = "body"
                    /\ \A j \in 1..(k - 1) : xml.root.children[j].tag # "body"
    IN  [xml EXCEPT !.root.children[first] = in_body(xml.root.children[first])]

\* C9: in xml_caption_to_srt, for a document with N >= 1 paragraphs, the end
\* of the last cue is the formatted d of the last paragraph, taken as an
\* absolute millisecond value (not t + d), and the d of the other paragraphs
\* has no effect on the output.
C9_LastCueEnd ==
    (/\ Converted("generate_srt_captions") /\ HasBody(call.arg)
     /\ Len(Paragraphs(call.arg)) >= 1 /\ WellTimed(Paragraphs(call.arg))) =>
        LET ps == Paragraphs(call.arg)
        IN  /\ CueEnd(Lines(ret.value), Len(ps)) = Stamp(ps[Len(ps)], "d")
            /\ ret = xml_caption_to_srt(WithoutEarlierDurations(call.arg))

\* C9, reached: the last of three paragraphs starts after 0 and earlier
\* paragraphs carry a d of their own.
C9_Reached ==
    /\ Converted("generate_srt_captions") /\ HasBody(call.arg)
    /\ LET ps == Paragraphs(call.arg)
       IN  /\ Len(ps) = 3 /\ WellTimed(ps)
           /\ "d" \in DOMAIN ps[1].attrib /\ "d" \in DOMAIN ps[2].attrib
           /\ AttribFloat(ps[3], "t").value.ms > 0
           /\ CueEnd(Lines(ret.value), 3) = Stamp(ps[3], "d")

\* C10: for the body of three paragraphs (t=320, d=1.7), (t=1750, d=2410),
\* (t=1760, d=5119) whose single spans hold "A", " " and "B",
\* xml_caption_to_transcript returns exactly "A B".
C10_BlankSpanDropped ==
    (call.op = "generate_transcript" /\ call.arg = BlankSpanDoc) =>
        ret = Return(<<"A", " ", "B">>)

\* C10, amended: for that document xml_caption_to_transcript returns "A   B",
\* A and B three spaces apart: the paragraph whose span is one space has the
\* text " ", which is not empty and is kept between the two separators.
C10_BlankSpanKept ==
    (call.op = "generate_transcript" /\ call.arg = BlankSpanDoc) =>
        ret = Return(<<"A", " ", " ", " ", "B">>)

\* C10, reached: the transcript of that document was generated.
C10_Reached ==
    /\ call.op = "generate_transcript" /\ call.arg = BlankSpanDoc
    /\ Len(ret.value) = 5

====
